---- MODULE Spec2Model ----
(***************************************************************************)
(* HostsTableModel of legacy-components/ui/models/hostmodels.py: the host  *)
(* table behind the hosts view, its safe field accessor, the display /     *)
(* decoration projection of data(), the sort handler with its two layout   *)
(* signals, and the lookups by row and by IP.                              *)
(*                                                                         *)
(* Python values are tagged records, strings are sequences of one-char     *)
(* strings, so that parsing, concatenation, case folding and str() are     *)
(* computed and not assumed.                                               *)
(***************************************************************************)
EXTENDS Integers, Sequences, FiniteSets, TLC

VARIABLES hosts, loaded, pc, call, ret, emitted, entry

vars == <<hosts, loaded, pc, call, ret, emitted, entry>>

\* Longest list handed to setHosts.
MaxHosts == 3

\* Longest list of OS-only records handed to setHosts in SpecOS.
MaxOSHosts == 2

(***************************************************************************)
(* Python values                                                           *)
(***************************************************************************)
None == [t |-> "none", s |-> <<>>, n |-> 0]
StrV(chars) == [t |-> "str", s |-> chars, n |-> 0]
IntV(k) == [t |-> "int", s |-> <<>>, n |-> k]
\* A QIcon built from an image path, a QFont with strike-out and italic set.
QIcon(path) == [t |-> "icon", s |-> <<path>>, n |-> 0]
QFontStruck == [t |-> "font", s |-> <<"strikeOut", "italic">>, n |-> 0]
\* The outcome of a call that left by an exception instead of returning.
Raised == [t |-> "raise", s |-> <<>>, n |-> 0]

\* Truthiness of a value: `not x` is true of None, '' and 0.
Falsy(v) == \/ v.t = "none"
            \/ (v.t = "str" /\ v.s = <<>>)
            \/ (v.t = "int" /\ v.n = 0)

\* seq[i] with Python's indexing: negative indices count from the end,
\* anything outside raises IndexError.
PyIndex(seq, i) ==
    IF i >= 0 /\ i < Len(seq) THEN seq[i + 1]
    ELSE IF i < 0 /\ -i <= Len(seq) THEN seq[Len(seq) + i + 1]
    ELSE Raised

\* The three shapes a row of _hosts has: a dict, a tuple, and the list of
\* the constructor's default argument.
Dict(f) == [shape |-> "dict", fields |-> f, items |-> <<>>]
Tuple(xs) == [shape |-> "tuple", fields |-> <<>>, items |-> xs]
List(xs) == [shape |-> "list", fields |-> <<>>, items |-> xs]

\* dict.get(key)
DictGet(f, key) == IF key \in DOMAIN f THEN f[key] ELSE None

(***************************************************************************)
(* Text                                                                    *)
(***************************************************************************)
Reverse(seq) == [i \in 1..Len(seq) |-> seq[Len(seq) + 1 - i]]

Digits == <<"0", "1", "2", "3", "4", "5", "6", "7", "8", "9">>
UpperCase == <<"A", "B", "C", "D", "E", "F", "G", "H", "I", "J", "K", "L", "M",
               "N", "O", "P", "Q", "R", "S", "T", "U", "V", "W", "X", "Y", "Z">>
LowerCase == <<"a", "b", "c", "d", "e", "f", "g", "h", "i", "j", "k", "l", "m",
               "n", "o", "p", "q", "r", "s", "t", "u", "v", "w", "x", "y", "z">>
\* The characters in use, in code point order.
Alphabet == <<" ", "(", ")", "-", ".", "/">> \o Digits \o UpperCase \o LowerCase

IndexIn(seq, c) == CHOOSE i \in 1..Len(seq) : seq[i] = c
Ord(c) == IndexIn(Alphabet, c)
IsDigit(c) == \E i \in 1..Len(Digits) : Digits[i] = c
DigitValue(c) == IndexIn(Digits, c) - 1

\* Case folding of re.I.
Fold(c) == IF \E i \in 1..Len(UpperCase) : UpperCase[i] = c
           THEN LowerCase[IndexIn(UpperCase, c)]
           ELSE c
FoldAll(chars) == [i \in 1..Len(chars) |-> Fold(chars[i])]

Contains(chars, pat) ==
    \E i \in 1..(Len(chars) - Len(pat) + 1) :
        SubSeq(chars, i, i + Len(pat) - 1) = pat

\* re.search(pattern, string, re.I) for a pattern of literal characters
\* (a class such as [lL] is the letter itself once case is ignored).
re_search_I(pat, chars) == Contains(FoldAll(chars), FoldAll(pat))

\* a < b on str: by code points, a proper prefix first.
RECURSIVE StrLess(_, _)
StrLess(a, b) ==
    IF b = <<>> THEN FALSE
    ELSE IF a = <<>> THEN TRUE
    ELSE IF Head(a) = Head(b) THEN StrLess(Tail(a), Tail(b))
    ELSE Ord(Head(a)) < Ord(Head(b))

\* str(n) for n >= 0
RECURSIVE DecimalOf(_)
DecimalOf(k) ==
    IF k < 10 THEN <<Digits[k + 1]>>
    ELSE DecimalOf(k \div 10) \o <<Digits[(k % 10) + 1]>>

\* str(v), as a sequence of characters
PyStr(v) ==
    CASE v.t = "none" -> <<"N", "o", "n", "e">>
      [] v.t = "str" -> v.s
      [] v.t = "int" -> DecimalOf(v.n)
      [] OTHER -> <<>>

(***************************************************************************)
(* The records of the model                                                *)
(***************************************************************************)
Ip_10_0_0_5 == <<"1", "0", ".", "0", ".", "0", ".", "5">>
Ip_10_0_0_2 == <<"1", "0", ".", "0", ".", "0", ".", "2">>
Ip_9_9_9_9 == <<"9", ".", "9", ".", "9", ".", "9">>
Ip_bad == <<"b", "a", "d", "-", "i", "p">>
TextNone == <<"N", "o", "n", "e">>
TextTrue == <<"T", "r", "u", "e">>

\* a dict with every field the cells read, checked
HostWeb == Dict([ip |-> StrV(Ip_10_0_0_5), id |-> IntV(1),
                 hostname |-> StrV(<<"w", "e", "b">>),
                 osMatch |-> StrV(<<"L", "i", "n", "u", "x">>),
                 checked |-> StrV(TextTrue)])
\* a dict whose ip does not parse and whose hostname is ''
HostBad == Dict([ip |-> StrV(Ip_bad), id |-> IntV(3),
                 hostname |-> StrV(<<>>),
                 osMatch |-> StrV(<<"H", "P", " ", "x">>)])
\* a dict without ip, hostname and osMatch
HostNoIp == Dict([id |-> IntV(5), checked |-> StrV(TextTrue)])
\* the compact (ip, id) tuple
HostTuple == Tuple(<<StrV(Ip_10_0_0_2), IntV(4)>>)
\* the row of the constructor's default hosts = [[]]
HostList == List(<<>>)

HostPool == {HostWeb, HostBad, HostNoIp, HostTuple, HostList}

\* All lists of at most n elements of S.
ListsOf(S, n) == UNION {[1..k -> S] : k \in 0..n}

Keys == {"ip", "id", "hostname", "osMatch", "checked", "vendor"}
Rows == -1..MaxHosts

NoCall == [op |-> "__init__", row |-> 0, col |-> 0, key |-> "", role |-> "",
           order |-> "", ip |-> None]

(***************************************************************************)
(* HostsTableModel                                                         *)
(***************************************************************************)
\* getSafeHostField with the upper bound of line 46 off by one (row > len)
getSafeHostField_OffByOne(h, row, key) ==
    IF row < 0 \/ row > Len(h) THEN None
    ELSE LET host == PyIndex(h, row) IN
         IF host = Raised THEN Raised
         ELSE IF host.shape = "dict" THEN DictGet(host.fields, key)
         ELSE IF host.shape = "tuple" THEN
              IF key = "ip" THEN PyIndex(host.items, 0)
              ELSE IF key = "id" THEN PyIndex(host.items, 1)
              ELSE None
         ELSE None

\* getSafeHostField with the two positions of the tuple exchanged
getSafeHostField_Swapped(h, row, key) ==
    IF row < 0 \/ row >= Len(h) THEN None
    ELSE LET host == PyIndex(h, row) IN
         IF host = Raised THEN Raised
         ELSE IF host.shape = "dict" THEN DictGet(host.fields, key)
         ELSE IF host.shape = "tuple" THEN
              IF key = "ip" THEN PyIndex(host.items, 1)
              ELSE IF key = "id" THEN PyIndex(host.items, 0)
              ELSE None
         ELSE None

\* def getSafeHostField(self, row, key_or_index), over the list h
getSafeHostField(h, row, key) ==
    IF row < 0 \/ row >= Len(h) THEN None
    ELSE LET host == PyIndex(h, row) IN
         IF host = Raised THEN Raised
         ELSE IF host.shape = "dict" THEN DictGet(host.fields, key)
         ELSE IF host.shape = "tuple" THEN
              IF key = "ip" THEN PyIndex(host.items, 0)
              ELSE IF key = "id" THEN PyIndex(host.items, 1)
              ELSE None
         ELSE None

\* def rowCount(self, parent)
rowCount(h) == Len(h)

\* def columnCount(self, parent): the length of the first row
columnCount(h) ==
    IF Len(h) # 0
    THEN (IF h[1].shape = "dict" THEN Cardinality(DOMAIN h[1].fields)
          ELSE Len(h[1].items))
    ELSE 0

(***************************************************************************)
(* data(index, role)                                                       *)
(***************************************************************************)
\* the icon chain with the windows test moved in front of the linux test
DecorationIcon_WindowsFirst(os_string) ==
    IF Falsy(os_string) THEN QIcon("./images/question-icon.png")
    ELSE IF re_search_I(<<"w", "i", "n", "d", "o", "w", "s">>, os_string.s)
         THEN QIcon("./images/windows-icon.png")
    ELSE IF re_search_I(<<"l", "i", "n", "u", "x">>, os_string.s)
         THEN QIcon("./images/linux-icon.png")
    ELSE IF re_search_I(<<"c", "i", "s", "c", "o">>, os_string.s)
         THEN QIcon("./images/cisco-big.jpg")
    ELSE IF re_search_I(<<"H", "P", " ">>, os_string.s)
         THEN QIcon("./images/hp-icon.png")
    ELSE IF re_search_I(<<"v", "x", "w", "o", "r", "k", "s">>, os_string.s)
         THEN QIcon("./images/hp-icon.png")
    ELSE IF re_search_I(<<"v", "m", "w", "a", "r", "e">>, os_string.s)
         THEN QIcon("./images/vmware-big.jpg")
    ELSE QIcon("./images/question-icon.png")

\* lines 72-95: the icon for the operating system string of a row
DecorationIcon(os_string) ==
    IF Falsy(os_string) THEN QIcon("./images/question-icon.png")
    ELSE IF re_search_I(<<"l", "i", "n", "u", "x">>, os_string.s)
         THEN QIcon("./images/linux-icon.png")
    ELSE IF re_search_I(<<"w", "i", "n", "d", "o", "w", "s">>, os_string.s)
         THEN QIcon("./images/windows-icon.png")
    ELSE IF re_search_I(<<"c", "i", "s", "c", "o">>, os_string.s)
         THEN QIcon("./images/cisco-big.jpg")
    ELSE IF re_search_I(<<"H", "P", " ">>, os_string.s)
         THEN QIcon("./images/hp-icon.png")
    ELSE IF re_search_I(<<"v", "x", "w", "o", "r", "k", "s">>, os_string.s)
         THEN QIcon("./images/hp-icon.png")
    ELSE IF re_search_I(<<"v", "m", "w", "a", "r", "e">>, os_string.s)
         THEN QIcon("./images/vmware-big.jpg")
    ELSE QIcon("./images/question-icon.png")

\* a + b on two values: str concatenation, TypeError otherwise
PyAdd(a, b) ==
    IF a.t = "str" /\ b.t = "str" THEN StrV(a.s \o b.s) ELSE Raised

\* the address cell without line 108, the default '' of an absent ip
AddressCell_NoIpDefault(h, row) ==
    LET hostname0 == getSafeHostField(h, row, "hostname")
        ip == getSafeHostField(h, row, "ip")
        hostname == IF hostname0 # None THEN hostname0 ELSE StrV(<<>>)
    IN  IF hostname # StrV(<<>>)
        THEN PyAdd(PyAdd(PyAdd(ip, StrV(<<" ", "(">>)), hostname), StrV(<<")">>))
        ELSE ip

\* lines 105-113: the address cell, ip or ip (hostname)
AddressCell(h, row) ==
    LET hostname0 == getSafeHostField(h, row, "hostname")
        ip0 == getSafeHostField(h, row, "ip")
        ip == IF ip0 # None THEN ip0 ELSE StrV(<<>>)
        hostname == IF hostname0 # None THEN hostname0 ELSE StrV(<<>>)
    IN  IF hostname # StrV(<<>>)
        THEN PyAdd(PyAdd(PyAdd(ip, StrV(<<" ", "(">>)), hostname), StrV(<<")">>))
        ELSE ip

\* the columns of lines 101-137 that read one field, and the field each reads
ColumnKeys == <<"id", "", "osAccuracy", "", "ipv4", "ipv6", "macaddr", "status",
                "hostname", "vendor", "uptime", "lastboot", "distance",
                "checked", "state", "count">>
FieldColumns == {c \in 1..Len(ColumnKeys) : ColumnKeys[c] # ""}

NotSetInViewModel ==
    StrV(<<"N", "o", "t", " ", "s", "e", "t", " ", "i", "n", " ",
           "v", "i", "e", "w", " ", "m", "o", "d", "e", "l">>)

\* lines 97-140: the value of a cell
DisplayValue(h, row, column) ==
    IF column = 3 THEN AddressCell(h, row)
    ELSE IF (column + 1) \in FieldColumns
         THEN getSafeHostField(h, row, ColumnKeys[column + 1])
    ELSE NotSetInViewModel

\* lines 142-148: the font of a cell
FontValue(h, row, column) ==
    IF column = 3 /\ getSafeHostField(h, row, "checked") = StrV(TextTrue)
    THEN QFontStruck
    ELSE None

\* def data(self, index, role)
data(h, row, column, role) ==
    IF role = "DecorationRole" /\ column = 1
    THEN DecorationIcon(getSafeHostField(h, row, "osMatch"))
    ELSE IF role = "DisplayRole" THEN DisplayValue(h, row, column)
    ELSE IF role = "FontRole" THEN FontValue(h, row, column)
    ELSE None

(***************************************************************************)
(* sort(Ncol, order)                                                       *)
(***************************************************************************)
\* str.split(sep)
RECURSIVE Split(_, _)
Split(chars, sep) ==
    IF \E i \in 1..Len(chars) : chars[i] = sep
    THEN LET i == CHOOSE j \in 1..Len(chars) :
                      chars[j] = sep /\ \A k \in 1..(j - 1) : chars[k] # sep
         IN  <<SubSeq(chars, 1, i - 1)>> \o Split(SubSeq(chars, i + 1, Len(chars)), sep)
    ELSE <<chars>>

\* int(text) for a text of decimal digits
RECURSIVE DecimalValue(_)
DecimalValue(chars) ==
    IF chars = <<>> THEN 0
    ELSE 10 * DecimalValue(SubSeq(chars, 1, Len(chars) - 1))
         + DigitValue(chars[Len(chars)])

IsDecimal(chars) == chars # <<>> /\ \A i \in 1..Len(chars) : IsDigit(chars[i])

\* IP2Int of app.auxiliary: the dotted quad as one integer; it raises on
\* anything that is not four decimal fields.
IP2Int(ip) ==
    IF ip.t # "str" THEN Raised
    ELSE LET o == Split(ip.s, ".") IN
         IF Len(o) # 4 \/ \E i \in 1..Len(o) : ~IsDecimal(o[i]) THEN Raised
         ELSE IntV(16777216 * DecimalValue(o[1]) + 65536 * DecimalValue(o[2])
                   + 256 * DecimalValue(o[3]) + DecimalValue(o[4]))

\* lines 158-167: the key of a row; Raised when the exception leaves ip_key
ip_key(host) ==
    LET ip == IF host.shape = "dict" THEN DictGet(host.fields, "ip")
              ELSE PyIndex(host.items, 0)
    IN  IF ip = Raised THEN Raised
        ELSE LET result == IP2Int(ip) IN
             IF result = Raised THEN IntV(0)
             ELSE IF result = None THEN IntV(0)
             ELSE result

\* a < b on two keys
KeyLess(a, b) ==
    IF a.t = "int" /\ b.t = "int" THEN a.n < b.n ELSE StrLess(a.s, b.s)

Front(seq) == SubSeq(seq, 1, Len(seq) - 1)
Last(seq) == seq[Len(seq)]

\* list.sort on <<key, item>> pairs: binary insertion of each item behind
\* the items that are not greater, which is what keeps the sort stable
RECURSIVE Insert(_, _)
Insert(sorted, x) ==
    IF sorted = <<>> THEN <<x>>
    ELSE IF KeyLess(x[1], Last(sorted)[1])
         THEN Append(Insert(Front(sorted), x), Last(sorted))
    ELSE Append(sorted, x)

RECURSIVE StableSort(_)
StableSort(pairs) ==
    IF pairs = <<>> THEN <<>>
    ELSE Insert(StableSort(Front(pairs)), Last(pairs))

\* list.sort(key=..., reverse=...): with reverse the list is reversed
\* before and after the stable sort
ListSort(pairs, reverse) ==
    IF reverse THEN Reverse(StableSort(Reverse(pairs))) ELSE StableSort(pairs)

Items(pairs) == [i \in 1..Len(pairs) |-> pairs[i][2]]

\* line 168: self._hosts.sort(key=ip_key, reverse=...); the list is left as
\* it was when a key cannot be computed
SortedByIp(h, order) ==
    Items(ListSort([i \in 1..Len(h) |-> <<ip_key(h[i]), h[i]>>],
                   order = "DescendingOrder"))

IpKeyRaises(h) == \E i \in 1..Len(h) : ip_key(h[i]) = Raised

\* lines 181-184 of sortByOS: the rows zipped with their osMatch, '' for none
OsKey(h, i) ==
    LET v == getSafeHostField(h, i, "osMatch") IN
    IF Falsy(v) THEN StrV(<<>>) ELSE v

\* sortByOS through a mapping from osMatch to row, which keeps one row for
\* each osMatch
SortedByOS_OnePerKey(h, order) ==
    LET pairs == ListSort([i \in 1..Len(h) |-> <<OsKey(h, i - 1), h[i]>>],
                          order = "DescendingOrder")
        keep == {i \in 1..Len(pairs) : \A j \in 1..(i - 1) : pairs[j][1] # pairs[i][1]}
        Pick(pair) == \E i \in keep : pairs[i] = pair
    IN  Items(SelectSeq(pairs, Pick))

SortedByOS(h, order) ==
    Items(ListSort([i \in 1..Len(h) |-> <<OsKey(h, i - 1), h[i]>>],
                   order = "DescendingOrder"))

(***************************************************************************)
(* Lookups                                                                 *)
(***************************************************************************)
\* def getHostIPForRow / getHostIdForRow / getHostCheckStatusForRow
getHostIPForRow(h, row) == getSafeHostField(h, row, "ip")
getHostIdForRow(h, row) == getSafeHostField(h, row, "id")
getHostCheckStatusForRow(h, row) == getSafeHostField(h, row, "checked")

\* def getHostCheckStatusForIp(self, ip): the loop from row i on
RECURSIVE ScanCheckStatusForIp(_, _, _)
ScanCheckStatusForIp(h, ip, i) ==
    IF i >= Len(h) THEN None
    ELSE IF PyStr(getSafeHostField(h, i, "ip")) = PyStr(ip)
         THEN getSafeHostField(h, i, "checked")
    ELSE ScanCheckStatusForIp(h, ip, i + 1)

getHostCheckStatusForIp(h, ip) == ScanCheckStatusForIp(h, ip, 0)

\* def getRowForIp(self, ip): the loop from row i on
RECURSIVE ScanRowForIp(_, _, _)
ScanRowForIp(h, ip, i) ==
    IF i >= Len(h) THEN None
    ELSE IF getSafeHostField(h, i, "ip") = ip THEN IntV(i)
    ELSE ScanRowForIp(h, ip, i + 1)

getRowForIp(h, ip) == ScanRowForIp(h, ip, 0)

(***************************************************************************)
(* The state machine                                                       *)
(***************************************************************************)
Columns == -1..16
SortColumns == -1..4
Orders == {"AscendingOrder", "DescendingOrder"}
\* the columns asked for under a role other than DisplayRole
IconColumns == {0, 1, 3}
OtherRoles == {"DecorationRole", "FontRole", "ToolTipRole"}
IpArgs == {None, StrV(Ip_10_0_0_2), StrV(Ip_10_0_0_5), StrV(Ip_9_9_9_9),
           StrV(TextNone)}

\* HostsTableModel(): hosts = [[]]
Init ==
    /\ hosts = <<HostList>>
    /\ loaded = <<HostList>>
    /\ pc = "idle"
    /\ call = NoCall
    /\ ret = None
    /\ emitted = <<>>
    /\ entry = <<>>

\* a call that reads: it returns val and leaves the table alone
Answer(c, val) ==
    /\ pc = "idle"
    /\ pc' = "done"
    /\ call' = c
    /\ ret' = val
    /\ UNCHANGED <<hosts, loaded, emitted, entry>>

\* def setHosts(self, hosts)
setHosts(X) ==
    /\ pc = "idle"
    /\ hosts' = X
    /\ loaded' = X
    /\ pc' = "done"
    /\ call' = [NoCall EXCEPT !.op = "setHosts"]
    /\ ret' = None
    /\ UNCHANGED <<emitted, entry>>

GetSafeHostField(row, key) ==
    Answer([NoCall EXCEPT !.op = "getSafeHostField", !.row = row, !.key = key],
           getSafeHostField(hosts, row, key))

Data(row, column, role) ==
    Answer([NoCall EXCEPT !.op = "data", !.row = row, !.col = column, !.role = role],
           data(hosts, row, column, role))

GetHostCheckStatusForIp(ip) ==
    Answer([NoCall EXCEPT !.op = "getHostCheckStatusForIp", !.ip = ip],
           getHostCheckStatusForIp(hosts, ip))

GetRowForIp(ip) ==
    Answer([NoCall EXCEPT !.op = "getRowForIp", !.ip = ip],
           getRowForIp(hosts, ip))

\* line 156: sort is entered and layoutAboutToBeChanged is emitted
SortBegin(Ncol, order) ==
    /\ pc = "idle"
    /\ pc' = "sort"
    /\ call' = [NoCall EXCEPT !.op = "sort", !.col = Ncol, !.order = order]
    /\ emitted' = <<"layoutAboutToBeChanged">>
    /\ entry' = hosts
    /\ ret' = None
    /\ UNCHANGED <<hosts, loaded>>

\* lines 157-168: the rows are sorted by ip_key, or the exception of a key
\* leaves sort
SortByIp ==
    /\ pc = "sort"
    /\ call.col = 0 \/ call.col = 3
    /\ IF IpKeyRaises(hosts)
       THEN /\ pc' = "done"
            /\ ret' = Raised
            /\ UNCHANGED hosts
       ELSE /\ pc' = "sort_emit"
            /\ hosts' = SortedByIp(hosts, call.order)
            /\ UNCHANGED ret
    /\ UNCHANGED <<loaded, call, emitted, entry>>

\* lines 169-170: layoutChanged after the sort by IP
SortByIpEmit ==
    /\ pc = "sort_emit"
    /\ emitted' = Append(emitted, "layoutChanged")
    /\ pc' = "done"
    /\ UNCHANGED <<hosts, loaded, call, ret, entry>>

\* lines 172-173 and 181-184: sortByOS rebuilds the list
SortByOS ==
    /\ pc = "sort"
    /\ call.col = 1
    /\ hosts' = SortedByOS(hosts, call.order)
    /\ pc' = "sortByOS_emit"
    /\ UNCHANGED <<loaded, call, ret, emitted, entry>>

\* lines 185 and 174: layoutChanged at the end of sortByOS
SortByOSEmit ==
    /\ pc = "sortByOS_emit"
    /\ emitted' = Append(emitted, "layoutChanged")
    /\ pc' = "done"
    /\ UNCHANGED <<hosts, loaded, call, ret, entry>>

\* line 178 preceded by a reversal of the rows for descending order
SortOther_Reversing ==
    /\ pc = "sort"
    /\ call.col \notin {0, 1, 3}
    /\ hosts' = IF call.order = "DescendingOrder" THEN Reverse(hosts) ELSE hosts
    /\ emitted' = Append(emitted, "layoutChanged")
    /\ pc' = "done"
    /\ UNCHANGED <<loaded, call, ret, entry>>

\* line 178: any other column, layoutChanged alone
SortOther ==
    /\ pc = "sort"
    /\ call.col \notin {0, 1, 3}
    /\ emitted' = Append(emitted, "layoutChanged")
    /\ pc' = "done"
    /\ UNCHANGED <<hosts, loaded, call, ret, entry>>

\* the caller has the outcome of its call and goes on to the next one
Resume ==
    /\ pc = "done"
    /\ pc' = "idle"
    /\ call' = NoCall
    /\ ret' = None
    /\ emitted' = <<>>
    /\ entry' = <<>>
    /\ UNCHANGED <<hosts, loaded>>

Sort ==
    \/ \E Ncol \in SortColumns, order \in Orders : SortBegin(Ncol, order)
    \/ SortByIp
    \/ SortByIpEmit
    \/ SortByOS
    \/ SortByOSEmit
    \/ SortOther

Next ==
    \/ \E X \in ListsOf(HostPool, MaxHosts) : setHosts(X)
    \/ \E row \in Rows, key \in Keys : GetSafeHostField(row, key)
    \/ \E row \in Rows, column \in Columns : Data(row, column, "DisplayRole")
    \/ \E row \in Rows, column \in IconColumns, role \in OtherRoles :
           Data(row, column, role)
    \/ \E ip \in IpArgs : GetHostCheckStatusForIp(ip)
    \/ \E ip \in IpArgs : GetRowForIp(ip)
    \/ Sort
    \/ Resume

Spec == Init /\ [][Next]_vars

(***************************************************************************)
(* The icon chain on its own: the table is built over rows that differ in  *)
(* osMatch only and is then asked for cells.                               *)
(***************************************************************************)
OSStrings ==
    { <<>>,
      <<"L", "i", "n", "u", "x", " ", "5", ".", "4">>,
      <<"H", "P", " ", "P", "r", "o", "C", "u", "r", "v", "e">>,
      <<"W", "I", "N", "D", "O", "W", "S">>,
      <<"C", "i", "s", "c", "o", " ", "I", "O", "S">>,
      <<"V", "x", "W", "o", "r", "k", "s">>,
      <<"V", "M", "w", "a", "r", "e">>,
      <<"w", "i", "n", "d", "o", "w", "s", " ", "l", "i", "n", "u", "x">>,
      <<"v", "m", "w", "a", "r", "e", " ", "v", "x", "w", "o", "r", "k", "s">>,
      <<"v", "x", "w", "o", "r", "k", "s", " ", "h", "p", " ">>,
      <<"P", "H", "P">>,
      <<"F", "r", "e", "e", "B", "S", "D">> }

OSPool == {Dict([id |-> IntV(1)])}
          \cup {Dict([id |-> IntV(1), osMatch |-> StrV(os)]) : os \in OSStrings}

OSRows == -1..MaxOSHosts

\* HostsTableModel(hosts, headers) over OS rows
InitOS ==
    /\ hosts \in ListsOf(OSPool, MaxOSHosts)
    /\ loaded = hosts
    /\ pc = "idle"
    /\ call = NoCall
    /\ ret = None
    /\ emitted = <<>>
    /\ entry = <<>>

NextOS ==
    \/ \E row \in OSRows, column \in IconColumns, role \in OtherRoles :
           Data(row, column, role)
    \/ Resume

SpecOS == InitOS /\ [][NextOS]_vars

(***************************************************************************)
(* Properties                                                              *)
(***************************************************************************)
Done(op) == pc = "done" /\ call.op = op
InRange(row) == row >= 0 /\ row < Len(hosts)
Bracket == <<"layoutAboutToBeChanged", "layoutChanged">>

C6_FieldByShape ==
    (Done("getSafeHostField") /\ InRange(call.row)) =>
        LET host == hosts[call.row + 1] IN
        /\ host.shape = "dict" =>
              ret = (IF call.key \in DOMAIN host.fields
                     THEN host.fields[call.key] ELSE None)
        /\ host.shape = "tuple" =>
              ret = (IF call.key = "ip" THEN host.items[1]
                     ELSE IF call.key = "id" THEN host.items[2]
                     ELSE None)

\* the id of a tuple row has been read
C6_Witness ==
    /\ Done("getSafeHostField")
    /\ InRange(call.row)
    /\ hosts[call.row + 1] = HostTuple
    /\ call.key = "id"
    /\ ret = IntV(4)

(***************************************************************************)
(* sort                                                                    *)
(***************************************************************************)
\* The ip of a row, None when the row has none (a row of no accepted shape too).
IpOf(host) ==
    IF host.shape = "dict" THEN DictGet(host.fields, "ip")
    ELSE IF host.shape = "tuple" THEN host.items[1]
    ELSE None

\* The integer value of the ip of a row, 0 when it is absent or unparsable.
IpValue(host) ==
    LET v == IP2Int(IpOf(host)) IN IF v.t = "int" THEN v.n ELSE 0

\* h is ordered by IpValue in the direction asked for
OrderedByIp(h, order) ==
    \A i \in 1..(Len(h) - 1) :
        IF order = "DescendingOrder"
        THEN IpValue(h[i]) >= IpValue(h[i + 1])
        ELSE IpValue(h[i]) <= IpValue(h[i + 1])

\* rows of equal IpValue are in h in the order they have in before
TiesKept(before, h) ==
    \A k \in {IpValue(before[i]) : i \in 1..Len(before)} :
        LET Tied(host) == IpValue(host) = k
        IN  SelectSeq(h, Tied) = SelectSeq(before, Tied)

AcceptedShapes(h) == \A i \in 1..Len(h) : h[i].shape \in {"dict", "tuple"}

\* C2: every call of sort emits layoutAboutToBeChanged once, before any row
\* moves, and layoutChanged once, after the rows have moved; the order of
\* the rows changes nowhere else.
C2_SortBracketed ==
    /\ Done("sort") => emitted = Bracket
    /\ (call.op = "sort" /\ pc = "sort") =>
          (emitted = <<"layoutAboutToBeChanged">> /\ hosts = entry)
    /\ (call.op = "sort" /\ hosts # entry) =>
          (emitted = <<"layoutAboutToBeChanged">> \/ emitted = Bracket)
    /\ call.op \notin {"sort", "setHosts"} => emitted = <<>>

\* The same, for the calls that no key leaves by an exception.
C2_BracketedUnlessRaised ==
    /\ (Done("sort") /\ ret # Raised) => emitted = Bracket
    /\ (call.op = "sort" /\ pc = "sort") =>
          (emitted = <<"layoutAboutToBeChanged">> /\ hosts = entry)
    /\ (call.op = "sort" /\ hosts # entry) =>
          (emitted = <<"layoutAboutToBeChanged">> \/ emitted = Bracket)

\* C3: after sort on column 0 or 3 the rows are ordered by the integer value
\* of their ip, 0 for an absent or unparsable ip, in the direction asked
\* for, and rows of equal value keep the order they had.
C3_SortedByIp ==
    (Done("sort") /\ call.col \in {0, 3}) =>
        /\ OrderedByIp(hosts, call.order)
        /\ TiesKept(entry, hosts)

\* The same, for tables of dict and tuple rows.
C3_SortedByIpOnAcceptedShapes ==
    (Done("sort") /\ call.col \in {0, 3} /\ AcceptedShapes(entry)) =>
        /\ ret = None
        /\ OrderedByIp(hosts, call.order)
        /\ TiesKept(entry, hosts)

\* C4: sort never fails because of the rows held: on any column it returns,
\* a row without a usable ip sorts with the least key, and layoutChanged is
\* emitted at the end.
C4_SortNeverFails ==
    Done("sort") =>
        /\ ret # Raised
        /\ Len(emitted) > 0 /\ emitted[Len(emitted)] = "layoutChanged"
        /\ call.col \in {0, 3} => OrderedByIp(hosts, call.order)

\* C5: sorting keeps the content: after any calls of sort the table holds
\* the rows given to setHosts, each as often as given and unchanged, and
\* rowCount() is their number.
C5_SortKeepsContent ==
    /\ rowCount(hosts) = Len(loaded)
    /\ \A host \in HostPool :
          Cardinality({i \in 1..Len(hosts) : hosts[i] = host})
              = Cardinality({i \in 1..Len(loaded) : loaded[i] = host})
    /\ \A i \in 1..Len(hosts) : hosts[i] \in HostPool

\* a sort has moved the rows of a table of MaxHosts rows
C5_Witness ==
    /\ Done("sort")
    /\ Len(loaded) = MaxHosts
    /\ hosts # loaded

\* C9: sort on a column other than 0, 1 and 3 leaves every row where it was,
\* in either direction, and emits the two signals.
C9_OtherColumnNoOp ==
    (call.op = "sort" /\ call.col \notin {0, 1, 3}) =>
        /\ hosts = entry
        /\ pc = "done" => (emitted = Bracket /\ ret = None)

\* a descending sort on column 2 has returned over rows that a sort by IP
\* or by OS would have moved
C9_Witness ==
    /\ Done("sort")
    /\ call.col = 2
    /\ call.order = "DescendingOrder"
    /\ hosts = <<HostTuple, HostWeb, HostBad>>
    /\ emitted = Bracket

(***************************************************************************)
(* data                                                                    *)
(***************************************************************************)
MappedColumn(column) == column = 3 \/ (column + 1) \in FieldColumns
Empty == StrV(<<>>)

\* C7 as stated: the display value is never None; an absent field or a row
\* out of range shows as '', and the address cell is ip, or ip (hostname).
C7_DisplayNeverNone ==
    (Done("data") /\ call.role = "DisplayRole" /\ MappedColumn(call.col)) =>
        /\ ret # None
        /\ (call.col # 3
            /\ getSafeHostField(hosts, call.row, ColumnKeys[call.col + 1]) = None)
           => ret = Empty

\* C7, amended: only the address cell (column 3) turns None into '': it is
\* ip, '' for an absent ip, when hostname is absent or '', and
\* ip + " (" + hostname + ")" otherwise; every other mapped column shows the
\* field as it is, None when the field is absent or the row out of range.
C7_AddressCellNeverNone ==
    (Done("data") /\ call.role = "DisplayRole" /\ MappedColumn(call.col)) =>
        LET ip0 == getSafeHostField(hosts, call.row, "ip")
            hostname == getSafeHostField(hosts, call.row, "hostname")
            ip == IF ip0 = None THEN <<>> ELSE ip0.s
        IN  IF call.col = 3
            THEN /\ ret.t = "str"
                 /\ ret.s = (IF hostname = None \/ hostname = Empty THEN ip
                             ELSE ip \o <<" ", "(">> \o hostname.s \o <<")">>)
            ELSE ret = getSafeHostField(hosts, call.row, ColumnKeys[call.col + 1])

\* the address cell of a row without ip and hostname is ''
C7_Witness ==
    /\ Done("data")
    /\ call.role = "DisplayRole"
    /\ call.col = 3
    /\ InRange(call.row)
    /\ hosts[call.row + 1] = HostNoIp
    /\ ret = Empty

\* The category of an OS string by the first pattern found in it, case
\* ignored, in the order linux, windows, cisco, "HP ", vxworks, vmware.
OSCategory(os) ==
    IF os = None \/ os = Empty THEN "Unknown"
    ELSE IF re_search_I(<<"l", "i", "n", "u", "x">>, os.s) THEN "Linux"
    ELSE IF re_search_I(<<"w", "i", "n", "d", "o", "w", "s">>, os.s) THEN "Windows"
    ELSE IF re_search_I(<<"c", "i", "s", "c", "o">>, os.s) THEN "Cisco"
    ELSE IF re_search_I(<<"h", "p", " ">>, os.s) THEN "HP"
    ELSE IF re_search_I(<<"v", "x", "w", "o", "r", "k", "s">>, os.s) THEN "VxWorks"
    ELSE IF re_search_I(<<"v", "m", "w", "a", "r", "e">>, os.s) THEN "VMware"
    ELSE "Unknown"

\* The icon that stands for a category other than VxWorks.
CategoryIcon(category) ==
    CASE category = "Linux" -> QIcon("./images/linux-icon.png")
      [] category = "Windows" -> QIcon("./images/windows-icon.png")
      [] category = "Cisco" -> QIcon("./images/cisco-big.jpg")
      [] category = "HP" -> QIcon("./images/hp-icon.png")
      [] category = "VMware" -> QIcon("./images/vmware-big.jpg")
      [] OTHER -> QIcon("./images/question-icon.png")

OtherCategories == {"Unknown", "Linux", "Windows", "Cisco", "HP", "VMware"}

IconCall == Done("data") /\ call.role = "DecorationRole" /\ call.col = 1

\* C8 as stated: the first pattern found decides, and the seven outcomes are
\* distinct: what a VxWorks string yields is the outcome of no other
\* category, the HP one included.
C8_SevenCategories ==
    IconCall =>
        LET category == OSCategory(getSafeHostField(hosts, call.row, "osMatch"))
        IN  IF category = "VxWorks"
            THEN \A other \in OtherCategories : ret # CategoryIcon(other)
            ELSE ret = CategoryIcon(category)

\* C8, amended: the first pattern found decides, in the order stated, and
\* the outcomes are six: a string whose first pattern is vxworks yields the
\* outcome of HP.
C8_SixOutcomes ==
    IconCall =>
        LET category == OSCategory(getSafeHostField(hosts, call.row, "osMatch"))
        IN  ret = CategoryIcon(IF category = "VxWorks" THEN "HP" ELSE category)

\* the icon of a row whose osMatch holds windows before linux is asked for
C8_Witness ==
    /\ IconCall
    /\ InRange(call.row)
    /\ hosts[call.row + 1] =
          Dict([id |-> IntV(1),
                osMatch |-> StrV(<<"w", "i", "n", "d", "o", "w", "s", " ",
                                   "l", "i", "n", "u", "x">>)])
    /\ ret = QIcon("./images/linux-icon.png")

(***************************************************************************)
(* lookups                                                                 *)
(***************************************************************************)
\* C10: getRowForIp returns the least row whose ip equals the one asked for,
\* None when there is none; and when getHostCheckStatusForIp finds a row, it
\* is that row: its answer is getHostCheckStatusForRow(getRowForIp(ip)).
C10_LookupByIp ==
    /\ Done("getRowForIp") =>
          LET found == {i \in 0..(Len(hosts) - 1) :
                            getSafeHostField(hosts, i, "ip") = call.ip}
          IN  IF found = {} THEN ret = None
              ELSE ret.t = "int" /\ ret.n \in found
                   /\ \A i \in found : ret.n <= i
    /\ (/\ Done("getHostCheckStatusForIp")
        /\ \E i \in 0..(Len(hosts) - 1) :
              PyStr(getSafeHostField(hosts, i, "ip")) = PyStr(call.ip)) =>
          LET row == getRowForIp(hosts, call.ip)
          IN  /\ row # None
              /\ ret = getHostCheckStatusForRow(hosts, row.n)

\* The first half alone.
C10_FirstRowForIp ==
    Done("getRowForIp") =>
        LET found == {i \in 0..(Len(hosts) - 1) :
                          getSafeHostField(hosts, i, "ip") = call.ip}
        IN  IF found = {} THEN ret = None
            ELSE ret.t = "int" /\ ret.n \in found /\ \A i \in found : ret.n <= i
====
